---- MODULE Spec2Model ----
(***************************************************************************)
(* Hangman solver (hangman_ml.py): the guessing agent HangmanMLAgent       *)
(* (training, candidate filter, guess cascade), the game HangmanGame and   *)
(* the play loop of the self-test.                                         *)
(*                                                                         *)
(* Words and patterns are sequences of one-character strings; Python's     *)
(* 0-based index i is position i+1 here, and the positional table keeps    *)
(* Python's 0-based keys.  A Counter is the sequence of its                *)
(* <<letter, count>> items in insertion order (the order most_common and   *)
(* max break ties by); a defaultdict(Counter) is a function whose DOMAIN   *)
(* is the set of keys present.                                             *)
(***************************************************************************)
EXTENDS Integers, Sequences, FiniteSets, TLC

\* ------------------------------------------------------------------ bounds

\* The alphabet is the first NumLetters letters of "abc...z".
NumLetters == 3
\* The corpus holds at most MaxWords words.
MaxWords == 2
\* HangmanGame's max_tries ranges over 0..MaxTries.
MaxTries == 2
\* The self-test plays at most MaxGames games.
MaxGames == 2

\* _load_dictionary keeps the words with len > 3.
MinWordLen == 4

alphabet_string ==
  << "a", "b", "c", "d", "e", "f", "g", "h", "i", "j", "k", "l", "m",
     "n", "o", "p", "q", "r", "s", "t", "u", "v", "w", "x", "y", "z" >>

Alphabet == { alphabet_string[i] : i \in 1..NumLetters }

Placeholder == "_"

\* The words a dictionary file may hold (each of length >= MinWordLen).
WordPool ==
  { << "a", "a", "b", "b" >>,
    << "a", "a", "b", "c" >>,
    << "b", "a", "c", "a" >>,
    << "c", "b", "c", "c" >>,
    << "c", "a", "b", "b", "a" >> }

\* What _load_dictionary returns: an ordered list of words, repeats allowed.
Corpora == UNION { [1..n -> WordPool] : n \in 0..MaxWords }

\* The patterns guess is asked about.
Patterns == [1..MinWordLen -> Alphabet \cup {Placeholder}]

Range(s) == { s[i] : i \in DOMAIN s }

\* The positions of the longest word of the pool.
Positions == 1..(CHOOSE n \in { Len(w) : w \in WordPool } :
                  \A w \in WordPool : Len(w) <= n)

\* ---------------------------------------------------------------- Counter

EmptyCounter == << >>

CounterHas(c, letter) == \E k \in DOMAIN c : c[k][1] = letter

\* c[letter] += n: a new key goes last in insertion order.
CounterAdd(c, letter, n) ==
  IF CounterHas(c, letter)
    THEN [k \in DOMAIN c |->
            IF c[k][1] = letter THEN << letter, c[k][2] + n >> ELSE c[k]]
    ELSE Append(c, << letter, n >>)

\* The first index, in insertion order, of an item with the largest count.
FirstMaxIndex(c) ==
  CHOOSE k \in DOMAIN c :
    /\ \A j \in DOMAIN c : c[j][2] <= c[k][2]
    /\ \A j \in 1..(k - 1) : c[j][2] < c[k][2]

RemoveAt(s, k) == SubSeq(s, 1, k - 1) \o SubSeq(s, k + 1, Len(s))

\* A slip: the items in insertion order, unsorted (items() for most_common()).
most_commonUnsorted(c) == c

\* Counter.most_common(): the items sorted by count, largest first, stable.
RECURSIVE most_common(_)
most_common(c) ==
  IF c = << >> THEN << >>
  ELSE LET k == FirstMaxIndex(c)
       IN  << c[k] >> \o most_common(RemoveAt(c, k))

\* Counter(iterable) over a sequence of letters.
RECURSIVE CounterOf(_, _)
CounterOf(letters, c) ==
  IF letters = << >> THEN c
  ELSE CounterOf(Tail(letters), CounterAdd(c, Head(letters), 1))

\* d[key] on a defaultdict(Counter): a missing key is inserted, holding an
\* empty Counter; the defaultdict after the access.
DefaultDictTouch(d, key) ==
  IF key \in DOMAIN d THEN d ELSE d @@ (key :> EmptyCounter)

\* ------------------------------------------------------------------ train

EmptyTables ==
  [ positional_frequency |-> << >>,
    bigram_frequency     |-> << >>,
    overall_frequency    |-> EmptyCounter ]

\* The body of train's inner loop for word[i] (i counted from 1 here).
TrainLetter(t, word, i) ==
  LET letter == word[i]
      pf     == DefaultDictTouch(t.positional_frequency, i - 1)
      pf2    == [pf EXCEPT ![i - 1] = CounterAdd(@, letter, 1)]
      bf     == IF i > 1
                  THEN LET prev_letter == word[i - 1]
                           b == DefaultDictTouch(t.bigram_frequency, prev_letter)
                       IN  [b EXCEPT ![prev_letter] = CounterAdd(@, letter, 1)]
                  ELSE t.bigram_frequency
  IN  [ positional_frequency |-> pf2,
        bigram_frequency     |-> bf,
        overall_frequency    |-> CounterAdd(t.overall_frequency, letter, 1) ]

RECURSIVE TrainWord(_, _, _)
TrainWord(t, word, i) ==
  IF i > Len(word) THEN t
  ELSE TrainWord(TrainLetter(t, word, i), word, i + 1)

RECURSIVE TrainFrom(_, _, _)
TrainFrom(t, words, k) ==
  IF k > Len(words) THEN t
  ELSE TrainFrom(TrainWord(t, words[k], 1), words, k + 1)

train(words) == TrainFrom(EmptyTables, words, 1)

\* ------------------------------------------------------ _filter_dictionary

\* A slip: the revealed positions are not compared with the word.
RECURSIVE WordMatchesIgnoresRevealed(_, _, _, _)
WordMatchesIgnoresRevealed(word, current_word, guessed_letters, i) ==
  IF i > Len(word) THEN TRUE
  ELSE IF current_word[i] = Placeholder /\ word[i] \in guessed_letters THEN FALSE
  ELSE WordMatchesIgnoresRevealed(word, current_word, guessed_letters, i + 1)

\* The character loop of _filter_dictionary from position i on: FALSE at the
\* first position that breaks, TRUE when the loop runs out.
RECURSIVE WordMatches(_, _, _, _)
WordMatches(word, current_word, guessed_letters, i) ==
  IF i > Len(word) THEN TRUE
  ELSE IF current_word[i] = Placeholder /\ word[i] \in guessed_letters THEN FALSE
  ELSE IF current_word[i] # Placeholder /\ current_word[i] # word[i] THEN FALSE
  ELSE WordMatches(word, current_word, guessed_letters, i + 1)

KeepsWord(word, current_word, guessed_letters) ==
  IF Len(word) # Len(current_word) THEN FALSE
  ELSE WordMatches(word, current_word, guessed_letters, 1)

RECURSIVE FilterFrom(_, _, _, _)
FilterFrom(words, current_word, guessed_letters, k) ==
  IF k > Len(words) THEN << >>
  ELSE (IF KeepsWord(words[k], current_word, guessed_letters)
          THEN << words[k] >> ELSE << >>)
       \o FilterFrom(words, current_word, guessed_letters, k + 1)

filter_dictionary(words, current_word, guessed_letters) ==
  FilterFrom(words, current_word, guessed_letters, 1)

\* ------------------------------------------------------------------ guess

\* "".join(possible_words)
RECURSIVE Join(_)
Join(words) == IF words = << >> THEN << >> ELSE Head(words) \o Join(Tail(words))

\* A slip: only the most common letter is tried, the loop is left after it.
FirstUnguessedTopOnly(items, guessed_letters) ==
  IF items = << >> THEN << >>
  ELSE IF Head(items)[1] \notin guessed_letters THEN << Head(items)[1] >>
  ELSE << >>

\* A slip: the most common letter is returned, guessed or not.
FirstUnguessedNoCheck(items, guessed_letters) ==
  IF items = << >> THEN << >> ELSE << Head(items)[1] >>

\* The first item of an ordered item list whose letter is not guessed; the
\* empty sequence when the loop ends without returning.
RECURSIVE FirstUnguessed(_, _)
FirstUnguessed(items, guessed_letters) ==
  IF items = << >> THEN << >>
  ELSE IF Head(items)[1] \notin guessed_letters THEN << Head(items)[1] >>
  ELSE FirstUnguessed(Tail(items), guessed_letters)

\* The primary strategy: the letter returned from the loop over
\* frequency.most_common(), or << >>.
PrimaryGuess(possible_words, guessed_letters) ==
  IF possible_words = << >> THEN << >>
  ELSE FirstUnguessed(most_common(CounterOf(Join(possible_words), EmptyCounter)),
                      guessed_letters)

\* Scores are kept doubled, so that count * 1.5 stays an integer: a
\* positional count adds 2 * count, a bigram count adds 3 * count.
PositionalWeight == 2

\* A slip: the adjacency counts weighted 1, like the positional counts.
BigramWeightOne == PositionalWeight

BigramWeight == 3

\* for letter, count in counter.items(): if letter not in guessed_letters:
\*     letter_scores[letter] += count * weight
RECURSIVE AddItems(_, _, _, _)
AddItems(letter_scores, items, guessed_letters, weight) ==
  IF items = << >> THEN letter_scores
  ELSE AddItems(
         IF Head(items)[1] \notin guessed_letters
           THEN CounterAdd(letter_scores, Head(items)[1], Head(items)[2] * weight)
           ELSE letter_scores,
         Tail(items), guessed_letters, weight)

\* Whether the loop over current_word reads the bigram table at position i.
ReadsBigram(current_word, i) ==
  /\ current_word[i] # Placeholder
  /\ i + 1 <= Len(current_word)
  /\ current_word[i + 1] = Placeholder

\* The fallback's loop over current_word from position i on: the scores.
RECURSIVE ScoreFrom(_, _, _, _, _)
ScoreFrom(letter_scores, t, current_word, guessed_letters, i) ==
  IF i > Len(current_word) THEN letter_scores
  ELSE LET char == current_word[i]
           pf   == DefaultDictTouch(t.positional_frequency, i - 1)
           bf   == DefaultDictTouch(t.bigram_frequency, char)
           next == IF char = Placeholder
                     THEN AddItems(letter_scores, pf[i - 1], guessed_letters,
                                   PositionalWeight)
                   ELSE IF ReadsBigram(current_word, i)
                     THEN AddItems(letter_scores, bf[char], guessed_letters,
                                   BigramWeight)
                   ELSE letter_scores
       IN  ScoreFrom(next, t, current_word, guessed_letters, i + 1)

\* The same loop: the tables after it, every defaultdict key it read present.
RECURSIVE TouchFrom(_, _, _)
TouchFrom(t, current_word, i) ==
  IF i > Len(current_word) THEN t
  ELSE LET char == current_word[i]
           next == IF char = Placeholder
                     THEN [t EXCEPT !.positional_frequency =
                                      DefaultDictTouch(@, i - 1)]
                   ELSE IF ReadsBigram(current_word, i)
                     THEN [t EXCEPT !.bigram_frequency =
                                      DefaultDictTouch(@, char)]
                   ELSE t
       IN  TouchFrom(next, current_word, i + 1)

\* max(letter_scores, key=letter_scores.get): the first key with the
\* largest score.
BestScored(letter_scores) == letter_scores[FirstMaxIndex(letter_scores)][1]

\* A slip: random.choice over the whole alphabet.
RandomChoicesAnyLetter(guessed_letters) == Alphabet

\* random.choice's list: the letters of the alphabet not yet guessed.
RandomChoices(guessed_letters) == Alphabet \ guessed_letters

NoLetter == "IndexError"

\* guess(current_word, guessed_letters) on an agent with corpus `words` and
\* tables t: every outcome the call can have, as
\* [letter, strategy, possible_words, tables].  Only random.choice has more
\* than one; with nothing left to choose from it raises IndexError.
guess(words, t, current_word, guessed_letters) ==
  LET possible_words == filter_dictionary(words, current_word, guessed_letters)
      primary        == PrimaryGuess(possible_words, guessed_letters)
      letter_scores  == ScoreFrom(EmptyCounter, t, current_word, guessed_letters, 1)
      touched        == TouchFrom(t, current_word, 1)
      overall        == FirstUnguessed(most_common(t.overall_frequency),
                                       guessed_letters)
      Out(letter, strategy, tables) ==
        [ letter |-> letter, strategy |-> strategy,
          possible_words |-> possible_words, tables |-> tables ]
  IN  IF primary # << >> THEN { Out(primary[1], "primary", t) }
      ELSE IF letter_scores # << >>
        THEN { Out(BestScored(letter_scores), "models", touched) }
      ELSE IF overall # << >> THEN { Out(overall[1], "overall", touched) }
      ELSE IF RandomChoices(guessed_letters) # {}
        THEN { Out(l, "random", touched) : l \in RandomChoices(guessed_letters) }
      ELSE { Out(NoLetter, "raised", touched) }

\* ------------------------------------------------------------ HangmanGame

upper_string ==
  << "A", "B", "C", "D", "E", "F", "G", "H", "I", "J", "K", "L", "M",
     "N", "O", "P", "Q", "R", "S", "T", "U", "V", "W", "X", "Y", "Z" >>

\* str.lower() on one character.
LowerChar(ch) ==
  IF \E i \in DOMAIN upper_string : upper_string[i] = ch
    THEN alphabet_string[CHOOSE i \in DOMAIN upper_string : upper_string[i] = ch]
    ELSE ch

lower(word) == [i \in DOMAIN word |-> LowerChar(word[i])]

\* HangmanGame(secret_word, max_tries)
NewGame(secret, tries) ==
  [ secret_word     |-> lower(secret),
    max_tries       |-> tries,
    tries_left      |-> tries,
    guessed_letters |-> {},
    current_word    |-> [i \in DOMAIN secret |-> Placeholder] ]

\* "not letter": the empty string.
EmptyLetter == ""

\* A slip: only the first matching position is revealed.
make_guessFirstOccurrence(game, letter) ==
  IF letter = EmptyLetter \/ letter \in game.guessed_letters THEN game
  ELSE IF letter \in Range(game.secret_word)
    THEN LET first == CHOOSE i \in DOMAIN game.secret_word :
                        /\ game.secret_word[i] = letter
                        /\ \A j \in 1..(i - 1) : game.secret_word[j] # letter
         IN  [game EXCEPT
                !.guessed_letters = @ \cup {letter},
                !.current_word = [@ EXCEPT ![first] = letter]]
    ELSE [game EXCEPT
            !.guessed_letters = @ \cup {letter},
            !.tries_left = @ - 1]

\* A slip: a repeated letter is not ignored.
make_guessNoRepeatCheck(game, letter) ==
  IF letter = EmptyLetter THEN game
  ELSE IF letter \in Range(game.secret_word)
    THEN [game EXCEPT
            !.guessed_letters = @ \cup {letter},
            !.current_word = [i \in DOMAIN @ |->
                                IF game.secret_word[i] = letter THEN letter
                                ELSE @[i]]]
    ELSE [game EXCEPT
            !.guessed_letters = @ \cup {letter},
            !.tries_left = @ - 1]

\* A slip: only a letter of the secret is added to the guessed set.
make_guessForgetsMisses(game, letter) ==
  IF letter = EmptyLetter \/ letter \in game.guessed_letters THEN game
  ELSE IF letter \in Range(game.secret_word)
    THEN [game EXCEPT
            !.guessed_letters = @ \cup {letter},
            !.current_word = [i \in DOMAIN @ |->
                                IF game.secret_word[i] = letter THEN letter
                                ELSE @[i]]]
    ELSE [game EXCEPT !.tries_left = @ - 1]

\* game.make_guess(letter): the game after the call.
make_guess(game, letter) ==
  IF letter = EmptyLetter \/ letter \in game.guessed_letters THEN game
  ELSE IF letter \in Range(game.secret_word)
    THEN [game EXCEPT
            !.guessed_letters = @ \cup {letter},
            !.current_word = [i \in DOMAIN @ |->
                                IF game.secret_word[i] = letter THEN letter
                                ELSE @[i]]]
    ELSE [game EXCEPT
            !.guessed_letters = @ \cup {letter},
            !.tries_left = @ - 1]

is_won(game) == Placeholder \notin Range(game.current_word)

is_lost(game) == game.tries_left <= 0

\* The secrets HangmanGame is built with when it is driven directly.
GameSecrets == WordPool \cup { << "C", "a", "b" >> }

\* The letters make_guess is called with when it is driven directly.
GuessArguments == Alphabet \cup {EmptyLetter}

\* ------------------------------------------------------------------ state

VARIABLES
  full_dictionary,        \* agent.full_dictionary
  tables,                 \* agent's positional, bigram and overall tables
  g_current_word,         \* the last guess call: its current_word argument
  g_guessed_letters,      \*   its guessed_letters argument
  g_possible_words,       \*   its possible_words
  g_strategy,             \*   the strategy that returned ("none": no call yet)
  g_letter,               \*   the letter returned
  game,                   \* the HangmanGame object (NoGame: none built)
  m_letter,               \* the last make_guess call's argument ("none": no call)
  game_number,            \* the self-test's loop variable
  total_wins,             \* the self-test's count of games won
  turns                   \* iterations of the while loop in the current game

agent_vars == << full_dictionary, tables >>

call_vars ==
  << g_current_word, g_guessed_letters, g_possible_words, g_strategy, g_letter >>

main_vars == << game_number, total_wins, turns >>

vars == << agent_vars, call_vars, game, m_letter, main_vars >>

NoGame == NewGame(<< >>, 0)

\* HangmanMLAgent(dictionary_file): load, then train.
AgentInit ==
  /\ full_dictionary \in Corpora
  /\ tables = train(full_dictionary)

NoCallYet ==
  /\ g_current_word = << >>
  /\ g_guessed_letters = {}
  /\ g_possible_words = << >>
  /\ g_strategy = "none"
  /\ g_letter = NoLetter

\* One call agent.guess(current_word, guessed_letters).
GuessCall(current_word, guessed_letters) ==
  \E out \in guess(full_dictionary, tables, current_word, guessed_letters) :
    /\ g_current_word' = current_word
    /\ g_guessed_letters' = guessed_letters
    /\ g_possible_words' = out.possible_words
    /\ g_strategy' = out.strategy
    /\ g_letter' = out.letter
    /\ tables' = out.tables
    /\ UNCHANGED full_dictionary

\* ---- the agent driven directly: one guess call on any pattern and set

InitGuess ==
  /\ AgentInit
  /\ NoCallYet
  /\ game = NoGame
  /\ m_letter = "none"
  /\ game_number = 0 /\ total_wins = 0 /\ turns = 0

AskGuess ==
  /\ g_strategy = "none"
  /\ \E current_word \in Patterns, guessed_letters \in SUBSET Alphabet :
       GuessCall(current_word, guessed_letters)
  /\ UNCHANGED << game, m_letter, main_vars >>

NextGuess == AskGuess

SpecGuess == InitGuess /\ [][NextGuess]_vars

\* ---- the game driven directly: make_guess calls with any argument

InitGame ==
  /\ AgentInit
  /\ NoCallYet
  /\ \E secret \in GameSecrets, tries \in 0..MaxTries :
       game = NewGame(secret, tries)
  /\ m_letter = "none"
  /\ game_number = 0 /\ total_wins = 0 /\ turns = 0

MakeGuess ==
  \E letter \in GuessArguments :
    /\ game' = make_guess(game, letter)
    /\ m_letter' = letter
    /\ UNCHANGED << agent_vars, call_vars, main_vars >>

NextGame == MakeGuess

SpecGame == InitGame /\ [][NextGame]_vars

\* ---- the self-test: for each game, the while loop of guess and make_guess

\* Before the first iteration: the agent is built, game 0 is created with a
\* secret drawn from the corpus (random.choice raises on an empty corpus).
\* The self-test leaves max_tries at its default; here it ranges over
\* 0..MaxTries, so that with a short alphabet a game can still be lost.
Init ==
  /\ AgentInit
  /\ full_dictionary # << >>
  /\ NoCallYet
  /\ \E secret \in Range(full_dictionary), tries \in 0..MaxTries :
       game = NewGame(secret, tries)
  /\ m_letter = "none"
  /\ game_number = 0 /\ total_wins = 0 /\ turns = 0

Running == g_strategy # "raised"

\* One iteration of the while loop: guess on the game's pattern and guessed
\* set, then make_guess with the letter returned.  An IndexError from guess
\* ends the program.
PlayTurn ==
  /\ Running
  /\ ~is_won(game) /\ ~is_lost(game)
  /\ GuessCall(game.current_word, game.guessed_letters)
  /\ IF g_letter' = NoLetter
       THEN UNCHANGED << game, m_letter, main_vars >>
       ELSE /\ game' = make_guess(game, g_letter')
            /\ m_letter' = g_letter'
            /\ turns' = turns + 1
            /\ UNCHANGED << game_number, total_wins >>

\* The while loop has ended: count the win, and start the next game.
FinishGame ==
  /\ Running
  /\ is_won(game) \/ is_lost(game)
  /\ game_number < MaxGames
  /\ total_wins' = IF is_won(game) THEN total_wins + 1 ELSE total_wins
  /\ game_number' = game_number + 1
  /\ IF game_number + 1 < MaxGames
       THEN /\ \E secret \in Range(full_dictionary), tries \in 0..MaxTries :
                 game' = NewGame(secret, tries)
            /\ turns' = 0
       ELSE UNCHANGED << game, turns >>
  /\ UNCHANGED << agent_vars, call_vars, m_letter >>

Next == PlayTurn \/ FinishGame

Spec == Init /\ [][Next]_vars

\* ----------------------------------------------------- what the claims say

Called == g_strategy # "none"

Unguessed == Alphabet \ g_guessed_letters

\* The number of occurrences of letter in the words of a list.
Occurrences(letter, words) ==
  Cardinality({ ki \in { << k, i >> : k \in DOMAIN words, i \in Positions } :
                  /\ ki[2] <= Len(words[ki[1]])
                  /\ words[ki[1]][ki[2]] = letter })

\* The number of corpus words whose character at position i is letter.
PositionalCount(i, letter) ==
  Cardinality({ k \in DOMAIN full_dictionary :
                  /\ i <= Len(full_dictionary[k])
                  /\ full_dictionary[k][i] = letter })

\* The number of times "prev next" are consecutive characters in the corpus.
AdjacencyCount(prev, next) ==
  Cardinality({ ki \in { << k, i >> : k \in DOMAIN full_dictionary,
                                     i \in Positions } :
                  /\ ki[2] + 1 <= Len(full_dictionary[ki[1]])
                  /\ full_dictionary[ki[1]][ki[2]] = prev
                  /\ full_dictionary[ki[1]][ki[2] + 1] = next })

\* A word is a candidate: (a) its length, (b) no guessed letter under a
\* placeholder, (c) the revealed letters agree.
IsCandidate(word, pattern, guessed) ==
  /\ Len(word) = Len(pattern)
  /\ \A i \in DOMAIN pattern :
       pattern[i] = Placeholder => word[i] \notin guessed
  /\ \A i \in DOMAIN pattern :
       pattern[i] # Placeholder => word[i] = pattern[i]

\* Twice the positional part of a letter's score on the last call's pattern.
RECURSIVE PositionalPart2(_, _)
PositionalPart2(letter, i) ==
  IF i > Len(g_current_word) THEN 0
  ELSE (IF g_current_word[i] = Placeholder
          THEN 2 * PositionalCount(i, letter) ELSE 0)
       + PositionalPart2(letter, i + 1)

\* Twice the adjacency part: 1.5 times the count, for each revealed letter
\* whose successor is a placeholder.
RECURSIVE AdjacencyPart2(_, _)
AdjacencyPart2(letter, i) ==
  IF i >= Len(g_current_word) THEN 0
  ELSE (IF g_current_word[i] # Placeholder /\ g_current_word[i + 1] = Placeholder
          THEN 3 * AdjacencyCount(g_current_word[i], letter) ELSE 0)
       + AdjacencyPart2(letter, i + 1)

Score2(letter) == PositionalPart2(letter, 1) + AdjacencyPart2(letter, 1)

\* The candidate-filter strategy yields no letter: every letter of every
\* candidate is guessed (in particular, when there is no candidate).
NoPrimaryLetter ==
  \A k \in DOMAIN g_possible_words : Range(g_possible_words[k]) \subseteq g_guessed_letters

CorpusLetters == UNION { Range(full_dictionary[k]) : k \in DOMAIN full_dictionary }

\* C1: a guess call with some letter of the alphabet not yet guessed returns
\* one letter of the alphabet, and that letter is not in guessed_letters.
GuessIsTotal ==
  (Called /\ g_guessed_letters # Alphabet) => g_letter \in Unguessed

\* C1's case: the last strategy of the cascade, the random choice, returned
\* an unguessed letter, on a trained agent with words in its corpus.
GuessIsTotalWitness ==
  /\ g_strategy = "random"
  /\ full_dictionary # << >>
  /\ g_guessed_letters # {}
  /\ g_letter \in Unguessed

\* C2: the filter returns a corpus word if and only if it is a candidate:
\* same length as the pattern, no guessed letter under a placeholder, and
\* the pattern's letter at every revealed position.
FilterIsExact ==
  Called =>
    /\ Range(g_possible_words) \subseteq Range(full_dictionary)
    /\ \A w \in Range(full_dictionary) :
         w \in Range(g_possible_words)
           <=> IsCandidate(w, g_current_word, g_guessed_letters)

\* C2's case: of two corpus words of the pattern's length, the filter kept
\* one and dropped the other, on a pattern with a revealed letter and a
\* placeholder and with letters guessed.
FilterIsExactWitness ==
  /\ Called
  /\ g_guessed_letters # {}
  /\ \E i, j \in DOMAIN g_current_word :
       g_current_word[i] = Placeholder /\ g_current_word[j] # Placeholder
  /\ \E v, w \in Range(full_dictionary) :
       /\ Len(v) = Len(g_current_word) /\ Len(w) = Len(g_current_word)
       /\ v \in Range(g_possible_words)
       /\ w \notin Range(g_possible_words)

\* C3: with a candidate (and a letter left to guess), the letter returned is
\* not guessed and occurs in the candidates' concatenation at least as often
\* as every other letter not guessed.
PrimaryReturnsMostFrequent ==
  (Called /\ g_possible_words # << >> /\ g_guessed_letters # Alphabet) =>
    /\ g_letter \in Unguessed
    /\ \A l \in Unguessed :
         Occurrences(l, g_possible_words) <= Occurrences(g_letter, g_possible_words)

\* C3's case: the primary strategy returned; the most frequent letter of the
\* candidates was guessed already, and of the letters left one occurs less
\* often than the one returned.
PrimaryReturnsMostFrequentWitness ==
  /\ g_strategy = "primary"
  /\ Len(g_possible_words) >= 2
  /\ \E l \in g_guessed_letters :
       Occurrences(l, g_possible_words) > Occurrences(g_letter, g_possible_words)
  /\ \E l \in Unguessed :
       /\ Occurrences(l, g_possible_words) > 0
       /\ Occurrences(l, g_possible_words) < Occurrences(g_letter, g_possible_words)

\* C5: a guess call leaves the corpus and the positional, adjacency and
\* overall tables as they were.
GuessLeavesAgentUnchanged ==
  [][full_dictionary' = full_dictionary /\ tables' = tables]_vars

\* C6 as stated: with a letter of the alphabet left and a word in the
\* corpus, guess does not reach the random choice.
RandomNeverReached ==
  (Called /\ g_guessed_letters # Alphabet /\ full_dictionary # << >>) =>
    g_strategy # "random"

\* C6 amended: with a letter that occurs in the corpus left to guess, guess
\* does not reach the random choice.
RandomNotReachedWithCorpusLetterLeft ==
  (Called /\ CorpusLetters \ g_guessed_letters # {}) => g_strategy # "random"

\* C6's case: a corpus letter is left, the candidate filter and the
\* positional/adjacency scores gave nothing, and the overall-frequency
\* strategy returned a letter.
RandomNotReachedWitness ==
  /\ CorpusLetters \ g_guessed_letters # {}
  /\ g_strategy = "overall"
  /\ g_letter \in CorpusLetters \ g_guessed_letters

\* C10: when the candidate filter yields no letter, the letter returned
\* maximises, over the letters not guessed, the positional counts at the
\* placeholders plus 1.5 times the adjacency counts after each revealed
\* letter that a placeholder follows; when no letter not guessed has a
\* positive score, it is a letter not guessed of the highest overall
\* frequency.
FallbackReturnsBestScore ==
  (Called /\ NoPrimaryLetter /\ g_guessed_letters # Alphabet) =>
    /\ g_letter \in Unguessed
    /\ IF \E l \in Unguessed : Score2(l) > 0
         THEN \A l \in Unguessed : Score2(l) <= Score2(g_letter)
         ELSE \A l \in Unguessed :
                Occurrences(l, full_dictionary) <= Occurrences(g_letter, full_dictionary)

\* C10's case: the positional/adjacency strategy returned, and the 1.5
\* weight decided: another letter has the larger positional part, and would
\* tie or win were the adjacency counts weighted 1.
FallbackReturnsBestScoreWitness ==
  /\ g_strategy = "models"
  /\ \E l \in Unguessed :
       /\ PositionalPart2(l, 1) > PositionalPart2(g_letter, 1)
       /\ Score2(l) < Score2(g_letter)
       /\ 3 * PositionalPart2(l, 1) + 2 * AdjacencyPart2(l, 1)
            >= 3 * PositionalPart2(g_letter, 1) + 2 * AdjacencyPart2(g_letter, 1)

Misses(g) == g.guessed_letters \ Range(g.secret_word)

\* C4: make_guess with a letter not yet guessed adds it to the guessed set;
\* a letter of the secret is revealed at every position the secret has it,
\* the other positions and the attempts stay; a letter not in the secret
\* costs one attempt and leaves the pattern.  The game is won exactly when
\* every letter of the secret is guessed, lost exactly when the misses have
\* used the attempts up, and without a miss the attempts are max_tries.
ApplyGuessEffect ==
  [][ LET letter == m_letter'
      IN  (letter \in Alphabet /\ letter \notin game.guessed_letters) =>
            /\ game'.guessed_letters = game.guessed_letters \cup {letter}
            /\ game'.secret_word = game.secret_word
            /\ game'.max_tries = game.max_tries
            /\ IF \E i \in DOMAIN game.secret_word : game.secret_word[i] = letter
                 THEN /\ \A i \in DOMAIN game.secret_word :
                           game'.current_word[i] =
                             IF game.secret_word[i] = letter THEN letter
                             ELSE game.current_word[i]
                      /\ game'.tries_left = game.tries_left
                 ELSE /\ game'.current_word = game.current_word
                      /\ game'.tries_left = game.tries_left - 1
            /\ is_won(game') <=> Range(game'.secret_word) \subseteq game'.guessed_letters
            /\ is_lost(game') <=> Cardinality(Misses(game')) >= game'.max_tries
            /\ Misses(game') = {} => game'.tries_left = game'.max_tries
    ]_vars

\* C4's case: a game won after a miss, its last guess a letter the secret
\* has at two positions.
ApplyGuessEffectWitness ==
  /\ is_won(game)
  /\ game.tries_left = game.max_tries - 1
  /\ game.tries_left > 0
  /\ m_letter \in Range(game.secret_word)
  /\ \E i, j \in DOMAIN game.secret_word :
       i # j /\ game.secret_word[i] = m_letter /\ game.secret_word[j] = m_letter

\* C8: make_guess with the letter of the call just made changes nothing
\* (twice is once), and so does make_guess with the empty letter or with any
\* letter already guessed.
ApplyGuessIdempotent ==
  /\ m_letter # "none" => make_guess(game, m_letter) = game
  /\ \A letter \in game.guessed_letters \cup {EmptyLetter} :
       make_guess(game, letter) = game

\* C8's case: the call just made was a miss that left attempts, so that a
\* second decrement would show.
ApplyGuessIdempotentWitness ==
  /\ m_letter \in Alphabet
  /\ m_letter \notin Range(game.secret_word)
  /\ m_letter \in game.guessed_letters
  /\ game.tries_left < game.max_tries

\* C9: over every make_guess call the guessed set loses no member, grows by
\* one when the letter is new and by none otherwise, and the remaining
\* attempts do not increase.
GuessedGrowsTriesShrink ==
  [][ /\ game.guessed_letters \subseteq game'.guessed_letters
      /\ Cardinality(game'.guessed_letters) =
           Cardinality(game.guessed_letters)
             + (IF m_letter' \in Alphabet \ game.guessed_letters THEN 1 ELSE 0)
      /\ game'.tries_left <= game.tries_left
    ]_vars

\* C9's case: a hit and a miss have been applied, and the last call repeated
\* a letter.
GuessedGrowsTriesShrinkWitness ==
  /\ Cardinality(game.guessed_letters) = 2
  /\ Cardinality(Misses(game)) = 1
  /\ m_letter \in game.guessed_letters
  /\ game.tries_left = game.max_tries - 1

\* C7: in the play loop every iteration applies a letter not guessed before
\* (the iterations of a game are as many as its guessed letters), guess
\* never fails, and the loop runs at most once per letter of the alphabet:
\* with every letter guessed the game is won or lost.
GameIsBounded ==
  /\ Running
  /\ turns = Cardinality(game.guessed_letters)
  /\ turns <= NumLetters
  /\ turns = NumLetters => (is_won(game) \/ is_lost(game))

\* C7's case: a game that took a miss and then was won, in as many
\* iterations as it has guessed letters.
GameIsBoundedWitness ==
  /\ is_won(game)
  /\ ~is_lost(game)
  /\ turns >= 3
  /\ Misses(game) # {}

====
